---- MODULE Spec2Model ----
(***************************************************************************)
(* Dream-Drape storefront: cart, checkout, order cancellation and the      *)
(* admin order / product edits, as a state machine over the relational     *)
(* store.  One action per request handler; checkout is split at the points *)
(* where it leaves the process (the reads of the cart, the payment call,   *)
(* the commit), because other requests run between them.                   *)
(*                                                                         *)
(* Prices are integers (currency units); Product.price is a Float in the   *)
(* code, and the total and the item prices are the same Python values.     *)
(***************************************************************************)
EXTENDS Integers, Sequences, FiniteSets, TLC

VARIABLES
    products,       \* Product rows: id -> [price, stock_quantity, is_active, deleted]
    cart_items,     \* CartItem rows: set of [id, user_id, product_id, quantity, size, color]
    next_cart_id,   \* next CartItem primary key (ids are not reused)
    orders,         \* Order rows with their OrderItem children; Order.id = index
    req,            \* checkout requests in flight: worker slot -> session state
    workers,        \* size of the host's worker pool (requests handled at once)
    stock_history,  \* history: per product, the latest committed writes of stock_quantity
    users,          \* User rows: id -> [failed_login_attempts, locked_until, last_login]
    now,            \* datetime.utcnow(), in minutes
    audit_log,      \* AuditLog rows whose action is in traced, in insertion order
    traced,         \* the AuditLog actions this model keeps the rows of
    login_attempts  \* history: login forms submitted and validated so far

vars == <<products, cart_items, next_cart_id, orders, req, workers, stock_history,
          users, now, audit_log, traced, login_attempts>>

db == <<products, cart_items, next_cart_id, orders>>

accounts == <<users, now, traced, login_attempts>>

----------------------------------------------------------------------------
(* Bounds of the model *)

MaxOrders == 2
MaxCartLines == 2
MaxStock == 3
HistoryKept == 2
MaxAudit == 3
MaxTime == 60
MaxLogins == 6

(* Program constants *)

MaxPerLine == 10
MaxFailedLogins == 5
LockMinutes == 30

Users == {1, 2}
Products == {1, 2}
Sizes == {"S", "M"}
Colors == {"Red"}
SizesOf(p) == IF p = 1 THEN Sizes ELSE {"S"}
Prices == {5, 7}
InitialPrice == [p \in Products |-> IF p = 1 THEN 5 ELSE 7]
AddQtyInputs == {0, 1, 11}
UpdateQtyInputs == {0, 1, 2}
StockInputs == {-1, 1}
TickSteps == {10, 30}
DaysInputs == {0, 30}
MinutesPerDay == 24 * 60
InitialStock == [p \in Products |-> 2]
Slots == {1, 2}

Statuses == {"pending", "confirmed", "shipped", "delivered", "cancelled"}
PaymentMethods == {"cod", "razorpay", "stripe"}

Max(a, b) == IF a >= b THEN a ELSE b
Min(a, b) == IF a <= b THEN a ELSE b

----------------------------------------------------------------------------
(* models.py *)

is_in_stock(product) == product.stock_quantity > 0

get_total(item, prods) == prods[item.product_id].price * item.quantity

NewOrder(user, total, method) ==
    [user_id |-> user, total_amount |-> total, status |-> "pending",
     payment_status |-> "pending", payment_method |-> method,
     payment_id |-> "None", order_items |-> <<>>]

----------------------------------------------------------------------------
(* helpers over rows *)

CartOf(u) == {c \in cart_items : c.user_id = u}

RECURSIVE ById(_)
ById(S) ==
    IF S = {} THEN <<>>
    ELSE LET l == CHOOSE x \in S : \A y \in S : x.id <= y.id
         IN  <<l>> \o ById(S \ {l})

First(S) == CHOOSE x \in S : \A y \in S : x.id <= y.id

RECURSIVE QtyOf(_, _)
QtyOf(items, p) ==
    IF items = <<>> THEN 0
    ELSE (IF Head(items).product_id = p THEN Head(items).quantity ELSE 0)
         + QtyOf(Tail(items), p)

RECURSIVE ItemsTotal(_)
ItemsTotal(items) ==
    IF items = <<>> THEN 0
    ELSE Head(items).price * Head(items).quantity + ItemsTotal(Tail(items))

Logged(history, entry) ==
    LET h == Append(history, entry)
    IN  IF Len(h) > HistoryKept THEN Tail(h) ELSE h

IdleReq == [pc |-> "idle"]

Busy == {r \in Slots : req[r].pc # "idle"}

FreeWorker == Cardinality(Busy) < workers

----------------------------------------------------------------------------
(* security.py log_user_action: one AuditLog row, committed at once.  The
   model keeps the rows of the traced actions only. *)

AdminUser == Cardinality(Users) + 1

None == Cardinality(Users) + 2

AuditRow(user_id, action, resource_type, resource_id) ==
    [user_id |-> user_id, action |-> action, resource_type |-> resource_type,
     resource_id |-> resource_id, ip_address |-> "client", created_at |-> now]

log_user_action(user_id, action, resource_type, resource_id) ==
    IF action \in traced
    THEN /\ Len(audit_log) < MaxAudit
         /\ audit_log' = Append(audit_log,
                                AuditRow(user_id, action, resource_type, resource_id))
    ELSE UNCHANGED audit_log

----------------------------------------------------------------------------
(* routes.py add_to_cart *)

(* Variant: the asked quantity limited from above only *)
ClampQuantity_NoFloor(q) == Min(MaxPerLine, q)

ClampQuantity(q) == Max(1, Min(MaxPerLine, q))

(* Variant: the asked quantity is stored without being cut to the stock *)
AddToCart_Uncapped(u, p, qraw, size, color) ==
    /\ FreeWorker
    /\ LET product  == products[p]
           quantity == ClampQuantity(qraw)
           existing == {c \in CartOf(u) :
                          c.product_id = p /\ c.size = size /\ c.color = color}
       IN  IF product.deleted \/ ~product.is_active \/ ~is_in_stock(product)
           THEN UNCHANGED <<cart_items, next_cart_id>>
           ELSE IF existing # {}
           THEN /\ cart_items' = (cart_items \ {First(existing)}) \cup
                      {[First(existing) EXCEPT !.quantity = @ + quantity]}
                /\ UNCHANGED next_cart_id
           ELSE /\ next_cart_id <= MaxCartLines
                /\ cart_items' = cart_items \cup
                       {[id |-> next_cart_id, user_id |-> u,
                         product_id |-> p, quantity |-> quantity,
                         size |-> size, color |-> color]}
                /\ next_cart_id' = next_cart_id + 1
    /\ UNCHANGED <<products, orders, req, workers, accounts, stock_history,
                   audit_log>>

AddToCart(u, p, qraw, size, color) ==
    /\ FreeWorker
    /\ LET product  == products[p]
           asked    == ClampQuantity(qraw)
           quantity == IF product.stock_quantity < asked
                       THEN product.stock_quantity ELSE asked
           existing == {c \in CartOf(u) :
                          c.product_id = p /\ c.size = size /\ c.color = color}
       IN  IF product.deleted \/ ~product.is_active \/ ~is_in_stock(product)
           THEN UNCHANGED <<cart_items, next_cart_id, audit_log>>
           ELSE IF existing # {}
           THEN LET c == First(existing)
                    new_quantity == c.quantity + quantity
                IN    IF new_quantity <= product.stock_quantity
                      THEN /\ cart_items' = (cart_items \ {c}) \cup
                                     {[c EXCEPT !.quantity = new_quantity]}
                           /\ UNCHANGED next_cart_id
                           /\ log_user_action(u, "add_to_cart", "product", p)
                      ELSE UNCHANGED <<cart_items, next_cart_id, audit_log>>
           ELSE /\ next_cart_id <= MaxCartLines
                /\ cart_items' = cart_items \cup
                       {[id |-> next_cart_id, user_id |-> u,
                         product_id |-> p, quantity |-> quantity,
                         size |-> size, color |-> color]}
                /\ next_cart_id' = next_cart_id + 1
                /\ log_user_action(u, "add_to_cart", "product", p)
    /\ UNCHANGED <<products, orders, req, workers, accounts, stock_history>>

(* routes.py update_cart and remove_from_cart:
   CartItem.query.filter_by(id=item_id, user_id=current_user.id), whose
   first_or_404 ends the request when no row matches *)

(* Variant: the cart line looked up by its id alone *)
OwnCartItem_Any(u, id) == {c \in cart_items : c.id = id}

OwnCartItem(u, id) == {c \in cart_items : c.id = id /\ c.user_id = u}

(* routes.py update_cart *)

UpdateCart(u, id, quantity) ==
    /\ FreeWorker
    /\ IF OwnCartItem(u, id) = {}
       THEN UNCHANGED cart_items
       ELSE LET c == First(OwnCartItem(u, id))
            IN  IF quantity > 0
                THEN IF quantity <= products[c.product_id].stock_quantity
                     THEN cart_items' = (cart_items \ {c}) \cup
                             {[c EXCEPT !.quantity = Min(quantity, MaxPerLine)]}
                     ELSE UNCHANGED cart_items
                ELSE cart_items' = cart_items \ {c}
    /\ UNCHANGED <<products, next_cart_id, orders, req, workers, accounts, stock_history,
                   audit_log>>

(* routes.py remove_from_cart *)

RemoveFromCart(u, id) ==
    /\ FreeWorker
    /\ IF OwnCartItem(u, id) = {}
       THEN UNCHANGED cart_items
       ELSE cart_items' = cart_items \ OwnCartItem(u, id)
    /\ UNCHANGED <<products, next_cart_id, orders, req, workers, accounts, stock_history,
                   audit_log>>

(* auth.py cancel_order and reorder:
   Order.query.filter_by(id=order_id, user_id=current_user.id), whose
   first_or_404 ends the request when no row matches *)

OwnOrder(u, o) == orders[o].user_id = u

(* auth.py reorder: the loop over order.order_items, each query seeing the
   lines added so far (autoflush) *)

RECURSIVE ReorderLoop(_, _, _, _)
ReorderLoop(u, items, cart, items_added) ==
    IF items = <<>> THEN [cart |-> cart, items_added |-> items_added]
    ELSE
      LET order_item == Head(items)
          product    == products[order_item.product_id]
          existing   == {c \in cart : /\ c.user_id = u
                                      /\ c.product_id = order_item.product_id
                                      /\ c.size = order_item.size
                                      /\ c.color = order_item.color}
          quantity_to_add == Min(order_item.quantity, product.stock_quantity)
      IN  IF ~product.deleted /\ product.is_active /\ is_in_stock(product)
          THEN IF existing # {}
               THEN LET c == First(existing)
                        new_quantity == c.quantity + quantity_to_add
                        q == IF new_quantity <= product.stock_quantity
                             THEN new_quantity ELSE product.stock_quantity
                    IN  ReorderLoop(u, Tail(items),
                                    (cart \ {c}) \cup {[c EXCEPT !.quantity = q]},
                                    items_added + 1)
               ELSE ReorderLoop(u, Tail(items),
                                cart \cup {[id |-> next_cart_id + Cardinality(cart)
                                                     - Cardinality(cart_items),
                                            user_id |-> u,
                                            product_id |-> order_item.product_id,
                                            quantity |-> quantity_to_add,
                                            size |-> order_item.size,
                                            color |-> order_item.color]},
                                items_added + 1)
          ELSE ReorderLoop(u, Tail(items), cart, items_added)

Reorder(u, o) ==
    /\ FreeWorker
    /\ o \in 1..Len(orders)
    /\ LET done == ReorderLoop(u, orders[o].order_items, cart_items, 0)
       IN  IF ~OwnOrder(u, o)
           THEN UNCHANGED <<cart_items, next_cart_id, audit_log>>
           ELSE IF done.items_added > 0
           THEN /\ next_cart_id + Cardinality(done.cart)
                       - Cardinality(cart_items) <= MaxCartLines + 1
                /\ cart_items' = done.cart
                /\ next_cart_id' = next_cart_id + Cardinality(done.cart)
                                    - Cardinality(cart_items)
                /\ log_user_action(u, "reorder", "order", o)
           ELSE UNCHANGED <<cart_items, next_cart_id, audit_log>>
    /\ UNCHANGED <<products, orders, req, workers, accounts, stock_history>>

----------------------------------------------------------------------------
(* add_to_cart and reorder as they run on the threaded server: the queries
   (the product, the existing cart line) fill the request's session, and the
   writes reach the store at db.session.commit().  AddToCart and Reorder
   above are these two steps with nothing in between. *)

LowestFree(r) ==
    /\ req[r].pc = "idle"
    /\ \A r2 \in Slots : r2 < r => req[r2].pc # "idle"

Ids(S) == {c.id : c \in S}

(* the session's pending INSERTs and UPDATEs, given the cart the queries saw
   and the cart the handler has built *)
Pending(seen, built) ==
    [inserts |-> ById({c \in built : c.id \notin Ids(seen)}),
     updates |-> {[id |-> c.id, quantity |-> c.quantity] :
                     c \in {b \in built : b.id \in Ids(seen) /\ b \notin seen}}]

(* db.session.commit(): an UPDATE that matches no row raises StaleDataError
   and nothing is written *)
Stale(w) == \E u \in w.updates : u.id \notin Ids(cart_items)

Flushed(w) ==
    IF Stale(w)
    THEN cart_items
    ELSE {IF \E u \in w.updates : u.id = c.id
          THEN [c EXCEPT !.quantity =
                   (CHOOSE u \in w.updates : u.id = c.id).quantity]
          ELSE c : c \in cart_items}
         \cup {[id |-> next_cart_id + i - 1,
                user_id |-> w.inserts[i].user_id,
                product_id |-> w.inserts[i].product_id,
                quantity |-> w.inserts[i].quantity,
                size |-> w.inserts[i].size,
                color |-> w.inserts[i].color] : i \in 1..Len(w.inserts)}

AddToCartQuery(r, u, p, qraw, size, color) ==
    /\ FreeWorker
    /\ LowestFree(r)
    /\ LET product  == products[p]
           asked    == ClampQuantity(qraw)
           quantity == IF product.stock_quantity < asked
                       THEN product.stock_quantity ELSE asked
           existing == {c \in CartOf(u) :
                          c.product_id = p /\ c.size = size /\ c.color = color}
           built    == IF existing # {}
                       THEN (cart_items \ {First(existing)}) \cup
                              {[First(existing) EXCEPT !.quantity = @ + quantity]}
                       ELSE cart_items \cup
                              {[id |-> next_cart_id, user_id |-> u,
                                product_id |-> p, quantity |-> quantity,
                                size |-> size, color |-> color]}
       IN  IF product.deleted \/ ~product.is_active \/ ~is_in_stock(product)
           THEN UNCHANGED req
           ELSE IF existing # {}
                   /\ First(existing).quantity + quantity > product.stock_quantity
           THEN UNCHANGED req
           ELSE req' = [req EXCEPT ![r] =
                          [pc |-> "add", user_id |-> u, product_id |-> p,
                           writes |-> Pending(cart_items, built)]]
    /\ UNCHANGED <<db, workers, accounts, stock_history, audit_log>>

AddToCartCommit(r) ==
    /\ req[r].pc = "add"
    /\ next_cart_id + Len(req[r].writes.inserts) <= MaxCartLines + 1
    /\ cart_items' = Flushed(req[r].writes)
    /\ IF Stale(req[r].writes)
       THEN UNCHANGED <<next_cart_id, audit_log>>
       ELSE /\ next_cart_id' = next_cart_id + Len(req[r].writes.inserts)
            /\ log_user_action(req[r].user_id, "add_to_cart", "product",
                               req[r].product_id)
    /\ req' = [req EXCEPT ![r] = IdleReq]
    /\ UNCHANGED <<products, orders, workers, accounts, stock_history>>

ReorderQuery(r, u, o) ==
    /\ FreeWorker
    /\ LowestFree(r)
    /\ o \in 1..Len(orders)
    /\ OwnOrder(u, o)
    /\ LET done == ReorderLoop(u, orders[o].order_items, cart_items, 0)
       IN  IF done.items_added > 0
           THEN req' = [req EXCEPT ![r] =
                          [pc |-> "reorder", user_id |-> u, order_id |-> o,
                           writes |-> Pending(cart_items, done.cart)]]
           ELSE UNCHANGED req
    /\ UNCHANGED <<db, workers, accounts, stock_history, audit_log>>

ReorderCommit(r) ==
    /\ req[r].pc = "reorder"
    /\ next_cart_id + Len(req[r].writes.inserts) <= MaxCartLines + 1
    /\ cart_items' = Flushed(req[r].writes)
    /\ IF Stale(req[r].writes)
       THEN UNCHANGED <<next_cart_id, audit_log>>
       ELSE /\ next_cart_id' = next_cart_id + Len(req[r].writes.inserts)
            /\ log_user_action(req[r].user_id, "reorder", "order", req[r].order_id)
    /\ req' = [req EXCEPT ![r] = IdleReq]
    /\ UNCHANGED <<products, orders, workers, accounts, stock_history>>

----------------------------------------------------------------------------
(* routes.py checkout, lines 241-293: the cart and its products are read into
   the session, validated, and the Order is added and flushed *)

Unavailable(c) ==
    ~products[c.product_id].is_active \/ ~is_in_stock(products[c.product_id])

RECURSIVE CartTotal(_, _)
CartTotal(lines, prods) ==
    IF lines = <<>> THEN 0
    ELSE get_total(Head(lines), prods) + CartTotal(Tail(lines), prods)

CheckoutBegin(r, u, method, form_valid, card_given) ==
    /\ FreeWorker
    /\ req[r].pc = "idle"
    /\ \A r2 \in Slots : r2 < r => req[r2].pc # "idle"
    /\ LET lines == CartOf(u)
           gone  == {c \in lines : Unavailable(c)}
           seen  == [p \in {c.product_id : c \in lines} |-> products[p]]
           total == CartTotal(ById(lines), seen)
       IN  IF lines = {}
           THEN UNCHANGED <<cart_items, req>>
           ELSE IF gone # {}
           THEN /\ cart_items' = cart_items \ {First(gone)}
                /\ UNCHANGED req
           ELSE IF ~form_valid
           THEN UNCHANGED <<cart_items, req>>
           ELSE IF method = "stripe" /\ ~card_given
           THEN UNCHANGED <<cart_items, req>>
           ELSE /\ Len(orders) + Cardinality(Busy) < MaxOrders
                /\ req' = [req EXCEPT ![r] =
                             [pc |-> IF method = "cod" THEN "items" ELSE "pay",
                              user_id |-> u,
                              cart_items |-> ById(lines),
                              products |-> seen,
                              order |-> NewOrder(u, total, method),
                              payment_result |-> <<>>,
                              error |-> "none"]]
                /\ UNCHANGED cart_items
    /\ UNCHANGED <<products, next_cart_id, orders, workers, accounts, stock_history,
                   audit_log>>

(* payments.py process_payment: what the gateway call gives back *)

GatewayOutcomes(method) ==
    IF method = "stripe" THEN {"succeeded", "requires_action", "error"}
    ELSE {"created", "error"}

process_payment(method, outcome) ==
    IF outcome = "succeeded"
    THEN [raised |-> FALSE, success |-> TRUE, transaction_id |-> "pi",
          status |-> "completed"]
    ELSE IF outcome = "created"
    THEN [raised |-> FALSE, success |-> TRUE, transaction_id |-> "None",
          status |-> "created"]
    ELSE IF outcome = "requires_action"
    THEN [raised |-> FALSE, success |-> FALSE, transaction_id |-> "None",
          status |-> "None"]
    ELSE [raised |-> TRUE, success |-> FALSE, transaction_id |-> "None",
          status |-> "None"]

(* routes.py checkout, lines 311-317 and 346-347: the gateway call and what
   the handler makes of its result *)

PaymentAccepted(r, result) ==
    req' = [req EXCEPT ![r].pc = "items",
                       ![r].payment_result = <<result>>,
                       ![r].order.payment_status = "paid",
                       ![r].order.payment_id = result.transaction_id]

(* Variant: a refused payment leaves the request at the gateway call, which
   is then made again *)
PaymentRefused_Retries(r, msg) ==
    req' = [req EXCEPT ![r].error = msg]

PaymentRefused(r, msg) ==
    req' = [req EXCEPT ![r].pc = "failed", ![r].error = msg]

CheckoutPay(r) ==
    /\ req[r].pc = "pay"
    /\ \E outcome \in GatewayOutcomes(req[r].order.payment_method) :
         LET result == process_payment(req[r].order.payment_method, outcome)
         IN  IF result.raised THEN PaymentRefused(r, "payment error")
             ELSE IF result.success THEN PaymentAccepted(r, result)
             ELSE PaymentRefused(r, "payment failed")
    /\ UNCHANGED <<db, workers, accounts, stock_history, audit_log>>

(* routes.py checkout, lines 318-319, 348 and 352: db.session.rollback() and
   the checkout page again *)

(* Variant: the flushed Order is committed instead of rolled back *)
CheckoutRollback_Commits(r) ==
    /\ req[r].pc = "failed"
    /\ req' = [req EXCEPT ![r] = IdleReq]
    /\ orders' = Append(orders, req[r].order)
    /\ UNCHANGED <<products, cart_items, next_cart_id, workers, accounts, stock_history,
                   audit_log>>

CheckoutRollback(r) ==
    /\ req[r].pc = "failed"
    /\ req' = [req EXCEPT ![r] = IdleReq]
    /\ UNCHANGED <<db, workers, accounts, stock_history, audit_log>>

(* routes.py checkout, lines 321-344 *)

(* Variant: the items priced from the rows as stored when the order is
   committed, not from the products the session loaded *)
OrderItems_StoredPrice(lines, prods) ==
    [i \in 1..Len(lines) |->
        [product_id |-> lines[i].product_id, quantity |-> lines[i].quantity,
         price |-> products[lines[i].product_id].price,
         size |-> lines[i].size, color |-> lines[i].color]]

OrderItems(lines, prods) ==
    [i \in 1..Len(lines) |->
        [product_id |-> lines[i].product_id, quantity |-> lines[i].quantity,
         price |-> prods[lines[i].product_id].price,
         size |-> lines[i].size, color |-> lines[i].color]]

StockAfterOrder(seen_stock, ordered) == seen_stock - ordered

CheckoutCommit(r) ==
    /\ req[r].pc = "items"
    /\ LET rq    == req[r]
           order == [rq.order EXCEPT
                       !.order_items = OrderItems(rq.cart_items, rq.products)]
           ids   == {rq.cart_items[i].id : i \in 1..Len(rq.cart_items)}
       IN  /\ orders' = Append(orders, order)
           /\ products' =
                [p \in Products |->
                   IF p \in DOMAIN rq.products
                   THEN [products[p] EXCEPT !.stock_quantity =
                            StockAfterOrder(rq.products[p].stock_quantity,
                                            QtyOf(rq.cart_items, p))]
                   ELSE products[p]]
           /\ cart_items' = {c \in cart_items : c.id \notin ids}
           /\ stock_history' =
                [p \in Products |->
                   IF p \in DOMAIN rq.products
                   THEN Logged(stock_history[p],
                               [op |-> "place", order |-> Len(orders) + 1,
                                before |-> products[p].stock_quantity])
                   ELSE stock_history[p]]
    /\ req' = [req EXCEPT ![r] = IdleReq]
    /\ log_user_action(req[r].user_id, "place_order", "order", Len(orders) + 1)
    /\ UNCHANGED <<next_cart_id, workers, accounts>>

(* routes.py checkout, lines 349-351: an exception while the items are
   created, the stock written or the session committed *)

CheckoutError(r) ==
    /\ req[r].pc = "items"
    /\ req' = [req EXCEPT ![r].pc = "failed",
                          ![r].error = "error processing order"]
    /\ UNCHANGED <<db, workers, accounts, stock_history, audit_log>>

----------------------------------------------------------------------------
(* auth.py cancel_order *)

(* Variant: a shipped order can still be cancelled by its owner *)
Cancellable_Shipped(status) == status \in {"pending", "confirmed", "shipped"}

Cancellable(status) == status \in {"pending", "confirmed"}

(* Variant: cancellation that gives nothing back to the stock *)
Restore_Nothing(order) == products

Restore(order) ==
    [p \in Products |->
       [products[p] EXCEPT !.stock_quantity = @ + QtyOf(order.order_items, p)]]

CancelOrder(u, o) ==
    /\ FreeWorker
    /\ o \in 1..Len(orders)
    /\ IF ~OwnOrder(u, o)
       THEN UNCHANGED <<products, orders, stock_history, audit_log>>
       ELSE IF Cancellable(orders[o].status)
       THEN /\ \A p \in Products :
                 products[p].stock_quantity + QtyOf(orders[o].order_items, p)
                     <= MaxStock
            /\ orders' = [orders EXCEPT ![o].status = "cancelled"]
            /\ products' = Restore(orders[o])
            /\ stock_history' =
                 [p \in Products |->
                    IF QtyOf(orders[o].order_items, p) > 0
                    THEN Logged(stock_history[p],
                                [op |-> "cancel", order |-> o,
                                 before |-> products[p].stock_quantity])
                    ELSE stock_history[p]]
            /\ log_user_action(u, "cancel_order", "order", o)
       ELSE UNCHANGED <<products, orders, stock_history, audit_log>>
    /\ UNCHANGED <<cart_items, next_cart_id, req, workers, accounts>>

----------------------------------------------------------------------------
(* admin.py edit_order: the status query parameter (lines 306-323) and the
   form (lines 325-343) *)

EditOrderQuick(o, new_status) ==
    /\ FreeWorker
    /\ o \in 1..Len(orders)
    /\ new_status \in Statuses
    /\ orders' = [orders EXCEPT ![o].status = new_status]
    /\ log_user_action(AdminUser, "update_order_status", "order", o)
    /\ UNCHANGED <<products, cart_items, next_cart_id, req, workers, accounts, stock_history>>

EditOrderForm(o, status) ==
    /\ FreeWorker
    /\ o \in 1..Len(orders)
    /\ orders' = [orders EXCEPT ![o].status = status]
    /\ log_user_action(AdminUser, "update_order", "order", o)
    /\ UNCHANGED <<products, cart_items, next_cart_id, req, workers, accounts, stock_history>>

(* admin.py edit_product; the form comes pre-filled with the product's row
   (line 169), the admin changes one field of it, and the form's validators
   (forms.py AdminProductForm) decide whether anything is written *)

ProductForms(p) ==
    {[products[p] EXCEPT !.price = x] : x \in Prices}
    \cup {[products[p] EXCEPT !.stock_quantity = x] : x \in StockInputs}
    \cup {[products[p] EXCEPT !.is_active = x] : x \in BOOLEAN}

validate_on_submit(form) == form.price > 0 /\ form.stock_quantity >= 0

(* Variant: a price change that also re-prices the items already ordered *)
EditProduct_Reprices(p, form) ==
    /\ FreeWorker
    /\ products' = [products EXCEPT ![p].price = form.price]
    /\ orders' =
         [o \in 1..Len(orders) |->
            [orders[o] EXCEPT !.order_items =
               [i \in 1..Len(orders[o].order_items) |->
                  IF orders[o].order_items[i].product_id = p
                  THEN [orders[o].order_items[i] EXCEPT !.price = form.price]
                  ELSE orders[o].order_items[i]]]]
    /\ UNCHANGED <<cart_items, next_cart_id, req, workers, accounts, stock_history,
                   audit_log>>

EditProduct(p, form) ==
    /\ FreeWorker
    /\ IF ~products[p].deleted /\ validate_on_submit(form)
       THEN /\ products' = [products EXCEPT ![p] =
                              [price |-> form.price,
                               stock_quantity |-> Max(0, form.stock_quantity),
                               is_active |-> form.is_active,
                               deleted |-> FALSE]]
            /\ stock_history' =
                 IF Max(0, form.stock_quantity) = products[p].stock_quantity
                 THEN stock_history
                 ELSE [stock_history EXCEPT ![p] =
                         Logged(@, [op |-> "admin", order |-> 0,
                                    before |-> products[p].stock_quantity])]
            /\ log_user_action(AdminUser, "update_product", "product", p)
       ELSE UNCHANGED <<products, stock_history, audit_log>>
    /\ UNCHANGED <<cart_items, next_cart_id, orders, req, workers, accounts>>

(* admin.py delete_product: get_or_404, then session.delete and commit.  The
   delete sets product_id of the product's CartItems and OrderItems to NULL
   (relationships without a delete cascade, models.py:109-110), which their
   NOT NULL columns refuse: the commit raises and nothing is written. *)

Referenced(p) ==
    \/ \E c \in cart_items : c.product_id = p
    \/ \E o \in 1..Len(orders) : \E i \in 1..Len(orders[o].order_items) :
          orders[o].order_items[i].product_id = p

DeleteProduct(p) ==
    /\ FreeWorker
    /\ IF products[p].deleted \/ Referenced(p)
       THEN UNCHANGED <<products, audit_log>>
       ELSE /\ products' = [products EXCEPT ![p].deleted = TRUE]
            /\ log_user_action(AdminUser, "delete_product", "product", p)
    /\ UNCHANGED <<cart_items, next_cart_id, orders, req, workers, accounts, stock_history>>

----------------------------------------------------------------------------
(* models.py User.is_account_locked *)

(* Variant: a lock that is never honoured *)
is_account_locked_Never(user) == FALSE

(* Variant: a lock that never runs out *)
is_account_locked_Forever(user) == user.locked_until # <<>>

is_account_locked(user) ==
    user.locked_until # <<>> /\ user.locked_until[1] > now

(* auth.py login, with a form that validates, for the e-mail of account u *)

Login(u, password_ok) ==
    /\ FreeWorker
    /\ login_attempts < MaxLogins
    /\ login_attempts' = login_attempts + 1
    /\ IF is_account_locked(users[u])
       THEN UNCHANGED <<users, audit_log>>
       ELSE IF password_ok
       THEN /\ users' = [users EXCEPT ![u] =
                           [failed_login_attempts |-> 0, locked_until |-> <<>>,
                            last_login |-> <<now>>]]
            /\ log_user_action(u, "login", "user", u)
       ELSE /\ users' = [users EXCEPT ![u] =
                           [failed_login_attempts |-> @.failed_login_attempts + 1,
                            locked_until |->
                               IF @.failed_login_attempts + 1 >= MaxFailedLogins
                               THEN <<now + LockMinutes>>
                               ELSE @.locked_until,
                            last_login |-> @.last_login]]
            /\ log_user_action(None, "failed_login", "user", None)
    /\ UNCHANGED <<db, req, workers, stock_history, now, traced>>

(* auth.py login for an e-mail no account has *)

LoginUnknown ==
    /\ FreeWorker
    /\ login_attempts < MaxLogins
    /\ login_attempts' = login_attempts + 1
    /\ log_user_action(None, "failed_login", "user", None)
    /\ UNCHANGED <<db, req, workers, stock_history, users, now, traced>>

(* admin.py unlock_user *)

UnlockUser(u) ==
    /\ FreeWorker
    /\ users' = [users EXCEPT ![u].failed_login_attempts = 0,
                              ![u].locked_until = <<>>]
    /\ log_user_action(AdminUser, "unlock_user", "user", u)
    /\ UNCHANGED <<db, req, workers, stock_history, now, traced, login_attempts>>

(* commands.py reset_failed_logins *)

ResetFailedLogins ==
    /\ users' = [u \in Users |->
                   IF users[u].failed_login_attempts > 0
                   THEN [users[u] EXCEPT !.failed_login_attempts = 0,
                                         !.locked_until = <<>>]
                   ELSE users[u]]
    /\ UNCHANGED <<db, req, workers, stock_history, now, traced, login_attempts,
                   audit_log>>

(* commands.py cleanup_logs *)

(* Variant: a retention command that takes every row for expired *)
Expired_All(row, days) == TRUE

Expired(row, days) == row.created_at < now - days * MinutesPerDay

RECURSIVE Retained(_, _)
Retained(rows, days) ==
    IF rows = <<>> THEN <<>>
    ELSE IF Expired(Head(rows), days) THEN Retained(Tail(rows), days)
    ELSE <<Head(rows)>> \o Retained(Tail(rows), days)

CleanupLogs(days) ==
    /\ audit_log' = Retained(audit_log, days)
    /\ UNCHANGED <<db, req, workers, stock_history, users, now, traced,
                   login_attempts>>

(* the clock *)

Tick(d) ==
    /\ now + d <= MaxTime
    /\ now' = now + d
    /\ UNCHANGED <<db, req, workers, stock_history, users, audit_log, traced,
                   login_attempts>>

----------------------------------------------------------------------------
Init ==
    /\ products = [p \in Products |->
                     [price |-> InitialPrice[p], stock_quantity |-> InitialStock[p],
                      is_active |-> TRUE, deleted |-> FALSE]]
    /\ cart_items = {}
    /\ next_cart_id = 1
    /\ orders = <<>>
    /\ req = [r \in Slots |-> IdleReq]
    /\ workers = Cardinality(Slots)
    /\ stock_history = [p \in Products |-> <<>>]
    /\ users = [u \in Users |->
                  [failed_login_attempts |-> 0, locked_until |-> <<>>,
                   last_login |-> <<>>]]
    /\ now = 0
    /\ audit_log = <<>>
    /\ traced = {}
    /\ login_attempts = 0

CartActions ==
    \/ \E u \in Users, p \in Products, q \in AddQtyInputs, c \in Colors :
         \E s \in SizesOf(p) : AddToCart(u, p, q, s, c)
    \/ \E u \in Users, id \in 1..MaxCartLines, q \in UpdateQtyInputs :
         UpdateCart(u, id, q)
    \/ \E u \in Users, id \in 1..MaxCartLines : RemoveFromCart(u, id)
    \/ \E u \in Users, o \in 1..MaxOrders : Reorder(u, o)

CheckoutActions ==
    \/ \E r \in Slots, u \in Users, m \in PaymentMethods, v, c \in BOOLEAN :
         CheckoutBegin(r, u, m, v, c)
    \/ \E r \in Slots : CheckoutPay(r)
    \/ \E r \in Slots : CheckoutCommit(r)
    \/ \E r \in Slots : CheckoutError(r)
    \/ \E r \in Slots : CheckoutRollback(r)

OrderActions ==
    \E u \in Users, o \in 1..MaxOrders : CancelOrder(u, o)

AdminOrderActions ==
    \/ \E o \in 1..MaxOrders, s \in Statuses : EditOrderQuick(o, s)
    \/ \E o \in 1..MaxOrders, s \in Statuses : EditOrderForm(o, s)

CatalogActions ==
    \/ \E p \in Products : \E form \in ProductForms(p) : EditProduct(p, form)
    \/ \E p \in Products : DeleteProduct(p)

Next ==
    \/ CartActions
    \/ CheckoutActions
    \/ OrderActions
    \/ AdminOrderActions
    \/ CatalogActions

Spec == Init /\ [][Next]_vars

(* One worker: requests are handled one after the other *)
InitSerial ==
    /\ Init!1 /\ Init!2 /\ Init!3 /\ Init!4 /\ Init!5 /\ workers = 1 /\ Init!7
    /\ Init!8 /\ Init!9 /\ Init!10 /\ Init!11 /\ Init!12

(* The storefront on one worker: carts, checkout, cancellation *)
SpecSerial == InitSerial /\ [][CartActions \/ CheckoutActions \/ OrderActions]_vars

(* Checkouts racing on the worker pool *)
AddActions ==
    \E u \in Users, p \in Products, q \in AddQtyInputs, c \in Colors :
       \E s \in SizesOf(p) : AddToCart(u, p, q, s, c)

SpecRace == Init /\ [][AddActions \/ CheckoutActions]_vars

(* Orders and the back office's order edits, on one worker *)
SpecOrders ==
    InitSerial /\ [][AddActions \/ CheckoutActions \/ OrderActions
                       \/ AdminOrderActions]_vars

(* One customer's checkouts while the back office edits prices *)
PriceForms(p) == {[products[p] EXCEPT !.price = x] : x \in Prices}

PricingActions ==
    \/ \E p \in Products, q \in AddQtyInputs, c \in Colors :
         \E s \in SizesOf(p) : AddToCart(1, p, q, s, c)
    \/ \E r \in Slots, m \in PaymentMethods, v, c \in BOOLEAN :
         CheckoutBegin(r, 1, m, v, c)
    \/ \E r \in Slots : CheckoutPay(r)
    \/ \E r \in Slots : CheckoutCommit(r)
    \/ \E r \in Slots : CheckoutError(r)
    \/ \E r \in Slots : CheckoutRollback(r)
    \/ \E p \in Products : \E form \in PriceForms(p) : EditProduct(p, form)

SpecPricing == Init /\ [][PricingActions]_vars
(* Orders placed one request at a time while the back office edits and
   deletes products *)
ShopperActions ==
    \/ \E p \in Products, q \in AddQtyInputs, c \in Colors :
         \E s \in SizesOf(p) : AddToCart(1, p, q, s, c)
    \/ \E r \in Slots, m \in PaymentMethods, v, c \in BOOLEAN :
         CheckoutBegin(r, 1, m, v, c)
    \/ \E r \in Slots : CheckoutPay(r)
    \/ \E r \in Slots : CheckoutCommit(r)
    \/ \E r \in Slots : CheckoutError(r)
    \/ \E r \in Slots : CheckoutRollback(r)

SpecCatalog == InitSerial /\ [][ShopperActions \/ CatalogActions]_vars

(* Logins against the lockout, with the clock, the admin's unlock and the
   reset command; the model keeps the AuditLog rows of successful logins *)
InitLogin ==
    /\ Init!1 /\ Init!2 /\ Init!3 /\ Init!4 /\ Init!5 /\ Init!6 /\ Init!7
    /\ Init!8 /\ Init!9 /\ Init!10 /\ traced = {"login"} /\ Init!12

LoginActions ==
    \/ \E u \in Users, ok \in BOOLEAN : Login(u, ok)
    \/ \E d \in TickSteps : Tick(d)
    \/ \E u \in Users : UnlockUser(u)
    \/ ResetFailedLogins

SpecLogin == InitLogin /\ [][LoginActions]_vars

(* The audit trail: every traced handler, the retention command and the
   clock, requests handled one at a time *)
AuditedActions ==
    {"add_to_cart", "place_order", "cancel_order", "reorder", "login",
     "failed_login", "unlock_user", "update_product", "delete_product",
     "update_order_status", "update_order"}

InitAudit ==
    /\ Init!1 /\ Init!2 /\ Init!3 /\ Init!4 /\ Init!5 /\ workers = 1 /\ Init!7
    /\ Init!8 /\ Init!9 /\ Init!10 /\ traced = AuditedActions /\ Init!12

AuditActions ==
    \/ \E c \in Colors : AddToCart(1, 1, 1, "S", c)
    \/ \E r \in Slots, v \in BOOLEAN : CheckoutBegin(r, 1, "cod", v, FALSE)
    \/ \E r \in Slots : CheckoutCommit(r)
    \/ \E o \in 1..MaxOrders : CancelOrder(1, o)
    \/ \E o \in 1..MaxOrders : Reorder(1, o)
    \/ \E form \in PriceForms(1) : EditProduct(1, form)
    \/ \E p \in Products : DeleteProduct(p)
    \/ \E o \in 1..MaxOrders : EditOrderQuick(o, "shipped")
    \/ \E o \in 1..MaxOrders : EditOrderForm(o, "delivered")
    \/ \E ok \in BOOLEAN : Login(1, ok)
    \/ LoginUnknown
    \/ UnlockUser(1)
    \/ \E days \in DaysInputs : CleanupLogs(days)
    \/ Tick(LockMinutes)

SpecAudit == InitAudit /\ [][AuditActions]_vars

(* One customer's add_to_cart and reorder requests running side by side,
   after checkouts handled one at a time *)
CartRaceActions ==
    \/ \E r \in Slots, p \in Products, q \in AddQtyInputs, c \in Colors :
         \E sz \in SizesOf(p) : AddToCartQuery(r, 1, p, q, sz, c)
    \/ \E r \in Slots : AddToCartCommit(r)
    \/ \E r \in Slots, o \in 1..MaxOrders : ReorderQuery(r, 1, o)
    \/ \E r \in Slots : ReorderCommit(r)
    \/ \E r \in Slots, v, c \in BOOLEAN :
         Busy = {} /\ CheckoutBegin(r, 1, "cod", v, c)
    \/ \E r \in Slots : CheckoutCommit(r)

SpecCartRace == Init /\ [][CartRaceActions]_vars

(* One customer's cart against a well-stocked product: more units on the
   shelf than one request may ask for *)
BulkStock == MaxPerLine + 2

BulkQtyInputs == {0, 1, MaxPerLine + 1}

InitBulk ==
    /\ products = [p \in Products |->
                     [price |-> InitialPrice[p], stock_quantity |-> BulkStock,
                      is_active |-> TRUE, deleted |-> FALSE]]
    /\ Init!2 /\ Init!3 /\ Init!4 /\ Init!5 /\ workers = 1 /\ Init!7
    /\ Init!8 /\ Init!9 /\ Init!10 /\ Init!11 /\ Init!12

BulkActions ==
    \/ \E q \in BulkQtyInputs, sz \in Sizes, c \in Colors : AddToCart(1, 1, q, sz, c)
    \/ \E id \in 1..MaxCartLines, q \in BulkQtyInputs : UpdateCart(1, id, q)
    \/ \E o \in 1..MaxOrders : Reorder(1, o)
    \/ \E r \in Slots, v \in BOOLEAN : CheckoutBegin(r, 1, "cod", v, FALSE)
    \/ \E r \in Slots : CheckoutCommit(r)

SpecBulk == InitBulk /\ [][BulkActions]_vars

----------------------------------------------------------------------------
(* Properties *)

StockOf(p) == products[p].stock_quantity

Last(h) == h[Len(h)]

(* C1: every step of a checkout that passed validation either persists the
   whole order (one new Order with one OrderItem per cart line read, every
   product's stock_quantity lower by the ordered quantity, the cart lines
   deleted) or leaves orders, stock and cart lines as they were. *)
C1_CheckoutAllOrNothing ==
    [][req' # req =>
         \/ UNCHANGED db
         \/ \E r \in Slots :
              LET lines == req[r].cart_items
                  ids   == {lines[i].id : i \in 1..Len(lines)}
                  order == orders'[Len(orders')]
              IN  /\ req[r].pc = "items"
                  /\ req'[r].pc = "idle"
                  /\ Len(orders') = Len(orders) + 1
                  /\ SubSeq(orders', 1, Len(orders)) = orders
                  /\ order.user_id = req[r].user_id
                  /\ Len(order.order_items) = Len(lines)
                  /\ \A i \in 1..Len(lines) :
                       /\ order.order_items[i].product_id = lines[i].product_id
                       /\ order.order_items[i].quantity = lines[i].quantity
                  /\ \A p \in Products :
                       products'[p].stock_quantity =
                           products[p].stock_quantity - QtyOf(lines, p)
                  /\ cart_items' = {c \in cart_items : c.id \notin ids}]_vars

(* C2: no product's stock_quantity is ever below 0. *)
C2_StockNeverNegative == \A p \in Products : StockOf(p) >= 0

(* C3: a checkout with a cart line whose quantity exceeds the product's
   stock is rejected before the payment call: no request gets past
   validation holding a line with more units than the stock it read. *)
C3_OverStockRejected ==
    \A r \in Slots :
       req[r].pc # "idle" =>
          \A i \in 1..Len(req[r].cart_items) :
             req[r].cart_items[i].quantity
                <= req[r].products[req[r].cart_items[i].product_id].stock_quantity

(* C4: every order's total_amount is the sum over its items of
   price * quantity. *)
C4_TotalIsSumOfItems ==
    \A o \in 1..Len(orders) :
       orders[o].total_amount = ItemsTotal(orders[o].order_items)

C4_Witness ==
    \E o \in 1..Len(orders) :
       /\ Len(orders[o].order_items) = 2
       /\ \E i \in 1..2 :
            orders[o].order_items[i].price
               # products[orders[o].order_items[i].product_id].price

(* C5: a non-cash checkout whose payment is refused (success false or a
   PaymentError) changes no cart line, no stock_quantity and persists no
   order: from the Order's flush to the rollback every step of the request
   leaves the stored rows as they were. *)
C5_RefusedPaymentChangesNothing ==
    [][\A r \in Slots :
          (\/ (req[r].pc = "idle" /\ req'[r].pc = "pay")
           \/ (req[r].pc = "pay" /\ req'[r].pc = "failed")
           \/ (req[r].pc = "failed" /\ req'[r].pc = "idle"
                 /\ req[r].error \in {"payment failed", "payment error"}))
          => UNCHANGED db]_vars

C5_Witness ==
    \E r \in Slots :
       /\ req[r].pc = "failed"
       /\ req[r].error = "payment failed"
       /\ req[r].order.payment_method = "stripe"
       /\ orders = <<>>

(* C6: when the last two writes of a product's stock are two different
   users' checkouts, the stock is the value before the first of them minus
   both ordered quantities. *)
C6_NoLostDecrement ==
    \A p \in Products :
       LET h == stock_history[p]
       IN  (/\ Len(h) >= 2
            /\ h[Len(h) - 1].op = "place"
            /\ h[Len(h)].op = "place"
            /\ orders[h[Len(h) - 1].order].user_id # orders[h[Len(h)].order].user_id)
           => StockOf(p) = h[Len(h) - 1].before
                             - QtyOf(orders[h[Len(h) - 1].order].order_items, p)
                             - QtyOf(orders[h[Len(h)].order].order_items, p)

(* C7: cancel_order takes effect exactly on a pending or confirmed order:
   every step that raises a stock_quantity turns one order from pending or
   confirmed to cancelled and adds that order's item quantities to the
   stock; on any other status nothing changes. *)
C7_CancelOnlyWhenOpen ==
    [][(\E p \in Products : products'[p].stock_quantity > products[p].stock_quantity)
         => \E o \in 1..Len(orders) :
               /\ orders[o].status \in {"pending", "confirmed"}
               /\ orders' = [orders EXCEPT ![o].status = "cancelled"]
               /\ \A p \in Products :
                    products'[p].stock_quantity =
                       products[p].stock_quantity + QtyOf(orders[o].order_items, p)]_vars

C7_Witness ==
    \E o \in 1..Len(orders) : \E p \in Products :
       /\ orders[o].status = "cancelled"
       /\ Len(stock_history[p]) > 0
       /\ Last(stock_history[p]).op = "cancel"
       /\ Last(stock_history[p]).order = o
       /\ StockOf(p) = Last(stock_history[p]).before + QtyOf(orders[o].order_items, p)

(* C8: every change of an order's status to cancelled starts from pending
   or confirmed. *)
C8_CancelledOnlyFromOpen ==
    [][\A o \in 1..Len(orders) :
          (orders[o].status # "cancelled" /\ orders'[o].status = "cancelled")
             => orders[o].status \in {"pending", "confirmed"}]_vars

(* C9: every change of an order's status to cancelled adds the order's
   item quantities back to the stock in the same step. *)
C9_CancelledRestoresStock ==
    [][\A o \in 1..Len(orders) :
          (orders[o].status # "cancelled" /\ orders'[o].status = "cancelled")
             => \A p \in Products :
                   products'[p].stock_quantity =
                      products[p].stock_quantity + QtyOf(orders[o].order_items, p)]_vars

(* C10: when the last two writes of a product's stock are an order's
   checkout and then that order's cancellation, the stock is back at its
   value before the checkout. *)
C10_CancelUndoesCheckout ==
    \A p \in Products :
       LET h == stock_history[p]
       IN  (/\ Len(h) >= 2
            /\ h[Len(h) - 1].op = "place"
            /\ h[Len(h)].op = "cancel"
            /\ h[Len(h)].order = h[Len(h) - 1].order)
           => StockOf(p) = h[Len(h) - 1].before

C10_Witness ==
    \E p \in Products :
       LET h == stock_history[p]
       IN  /\ Len(h) >= 2
           /\ h[Len(h) - 1].op = "place"
           /\ h[Len(h)].op = "cancel"
           /\ h[Len(h)].order = h[Len(h) - 1].order
           /\ orders[h[Len(h)].order].status = "cancelled"
           /\ QtyOf(orders[h[Len(h)].order].order_items, p) = 2

(* C11: each user has at most one cart line per (product, size, color). *)
C11_OneLinePerVariant ==
    \A c1 \in cart_items : \A c2 \in cart_items :
       (/\ c1.user_id = c2.user_id
        /\ c1.product_id = c2.product_id
        /\ c1.size = c2.size
        /\ c1.color = c2.color) => c1.id = c2.id

(* C12: once an order exists, no step changes its items' price or quantity
   or its total_amount, whatever is done to the catalog afterwards. *)
C12_OrderKeepsItsPrices ==
    [][\A o \in 1..Len(orders) :
          /\ orders'[o].order_items = orders[o].order_items
          /\ orders'[o].total_amount = orders[o].total_amount]_vars

C12_Witness ==
    \E o \in 1..Len(orders) :
       /\ orders[o].total_amount = ItemsTotal(orders[o].order_items)
       /\ \E i \in 1..Len(orders[o].order_items) :
            LET item == orders[o].order_items[i]
            IN  /\ item.price # products[item.product_id].price
                /\ ~products[item.product_id].is_active

(* C13: every failed attempt adds one to the account's failure count; from
   the fifth failure on the account is locked until 30 minutes after that
   failure; and while locked_until is in the future no login attempt
   succeeds or changes the account, whatever the password. *)
C13_LockedAfterFiveFailures ==
    [][\A u \in Users :
          LET before  == users[u]
              after   == users'[u]
              entered == /\ Len(audit_log') = Len(audit_log) + 1
                         /\ audit_log'[Len(audit_log')].action = "login"
                         /\ audit_log'[Len(audit_log')].user_id = u
          IN  /\ (login_attempts' # login_attempts /\ after # before /\ ~entered)
                    => after.failed_login_attempts = before.failed_login_attempts + 1
              /\ (after.failed_login_attempts >= MaxFailedLogins
                    /\ after.failed_login_attempts # before.failed_login_attempts)
                    => after.locked_until = <<now + LockMinutes>>
              /\ after.failed_login_attempts >= MaxFailedLogins
                    => after.locked_until # <<>>
              /\ (/\ before.locked_until # <<>>
                  /\ now < before.locked_until[1]
                  /\ login_attempts' # login_attempts)
                    => (after = before /\ ~entered)]_vars

C13_Witness ==
    \E u \in Users :
       /\ users[u].failed_login_attempts = MaxFailedLogins
       /\ users[u].locked_until # <<>>
       /\ now < users[u].locked_until[1]
       /\ login_attempts > MaxFailedLogins
       /\ \A u2 \in Users \ {u} : users[u2].failed_login_attempts = 0

(* C14: the AuditLog is append-only: every step keeps the rows there are
   and at most appends to them, except the retention command, which removes
   exactly the rows created before its cutoff and changes no other. *)
C14_AuditAppendOnly ==
    [][\/ /\ Len(audit_log') >= Len(audit_log)
          /\ SubSeq(audit_log', 1, Len(audit_log)) = audit_log
       \/ \E days \in DaysInputs :
            LET Kept(row) == row.created_at >= now - days * MinutesPerDay
            IN  audit_log' = SelectSeq(audit_log, Kept)]_vars

C14_Witness ==
    /\ Len(orders) > 0
    /\ audit_log # <<>>
    /\ \A i \in 1..Len(audit_log) :
          /\ audit_log[i].action # "place_order"
          /\ audit_log[i].created_at = now
    /\ now > 0

(* C15: every login attempt, accepted or rejected, and every committed admin
   change of a product, of an order's status or of an account's lock appends
   an AuditLog row for it in the same step. *)
C15_EveryActionAudited ==
    [][LET appended == Len(audit_log') = Len(audit_log) + 1
           row      == audit_log'[Len(audit_log')]
       IN  /\ login_attempts' # login_attempts
                => (appended /\ row.action \in {"login", "failed_login"}
                             /\ row.ip_address = "client")
           /\ \A p \in Products :
                (\/ products'[p].price # products[p].price
                 \/ products'[p].is_active # products[p].is_active
                 \/ products'[p].deleted # products[p].deleted)
                => (appended /\ row.user_id = AdminUser
                             /\ row.resource_type = "product"
                             /\ row.resource_id = p)
           /\ \A o \in 1..Len(orders) :
                orders'[o].status # orders[o].status
                => (appended /\ row.resource_type = "order" /\ row.resource_id = o)
           /\ \A u \in Users :
                (users[u].locked_until # <<>> /\ users'[u].locked_until = <<>>)
                => (appended /\ row.action \in {"login", "unlock_user"})]_vars

(* C16: a cash-on-delivery checkout never reaches the payment call, and its
   commit persists an Order whose total_amount is the sum of price * quantity
   over the cart lines it read, with status pending and payment_status
   pending, lowers every product's stock_quantity by the quantities of
   those lines for it, and leaves none of those lines in the cart. *)
C16_CashOnDelivery ==
    [][/\ \A r \in Slots :
            req'[r].pc = "pay" => req'[r].order.payment_method # "cod"
       /\ \A r \in Slots :
            (/\ req[r].pc = "items"
             /\ req'[r].pc = "idle"
             /\ req[r].order.payment_method = "cod"
             /\ Len(orders') = Len(orders) + 1)
            => LET lines == req[r].cart_items
                   order == orders'[Len(orders')]
               IN  /\ order.total_amount =
                         ItemsTotal([i \in 1..Len(lines) |->
                                       [price |-> products[lines[i].product_id].price,
                                        quantity |-> lines[i].quantity]])
                   /\ order.total_amount = ItemsTotal(order.order_items)
                   /\ order.status = "pending"
                   /\ order.payment_status = "pending"
                   /\ order.payment_id = "None"
                   /\ \A p \in Products :
                        products'[p].stock_quantity =
                           products[p].stock_quantity - QtyOf(lines, p)
                   /\ \A i \in 1..Len(lines) : lines[i] \notin cart_items']_vars

(* C17: a checkout commit persists an Order only for cart lines that no
   earlier Order of the same user was already persisted for: when the lines
   the request read have left the cart, no Order of that user with the same
   items exists at the moment the request appends its own. *)
C17_OneOrderPerCart ==
    [][\A r \in Slots :
          (/\ req[r].pc = "items"
           /\ req'[r].pc = "idle"
           /\ Len(orders') = Len(orders) + 1)
          => LET lines == req[r].cart_items
                 order == orders'[Len(orders')]
             IN  ~ /\ \A i \in 1..Len(lines) : lines[i] \notin cart_items
                   /\ \E o \in 1..Len(orders) :
                         /\ orders[o].user_id = order.user_id
                         /\ orders[o].order_items = order.order_items]_vars

(* C18: a checkout request on a cart holding unavailable lines (a step that
   takes lines out of the cart without persisting an order) starts no
   request, creates no order, changes no stock_quantity, removes every
   unavailable line of that cart and keeps every available line. *)
C18_UnavailableLinesRemoved ==
    [][(cart_items' # cart_items /\ cart_items' \subseteq cart_items
        /\ orders' = orders)
       => /\ req' = req
          /\ products' = products
          /\ cart_items' = {c \in cart_items : ~Unavailable(c)}]_vars

(* C19: in a non-cash checkout the request reaches the gateway call only
   from its start, with every cart line of the user read and available and
   nothing written; the call is made once, it leaves the stored products,
   cart lines and orders as they are, and only its success leads to the step
   that writes them; a request whose payment failed does nothing more than
   roll back and end, with no second call and no stored change. *)
C19_PaymentOnceBeforeWrites ==
    [][\A r \in Slots :
          /\ (req'[r].pc = "pay" /\ req[r].pc # "pay")
             => /\ req[r].pc = "idle"
                /\ req'[r].order.payment_method # "cod"
                /\ req'[r].cart_items = ById(CartOf(req'[r].user_id))
                /\ \A c \in CartOf(req'[r].user_id) : ~Unavailable(c)
                /\ db' = db
          /\ (req[r].pc = "pay" /\ req'[r] # req[r])
             => /\ req'[r].pc \in {"items", "failed"}
                /\ db' = db
          /\ (req'[r].pc = "items" /\ req[r].pc # "items"
                 /\ req'[r].order.payment_method # "cod")
             => /\ req[r].pc = "pay"
                /\ req'[r].order.payment_status = "paid"
          /\ (req[r].pc = "failed" /\ req[r].order.payment_status # "paid"
                 /\ req[r].order.payment_method # "cod" /\ req'[r] # req[r])
             => /\ req'[r].pc = "idle"
                /\ db' = db
                /\ audit_log' = audit_log]_vars

C19_Witness ==
    \E r \in Slots :
       /\ req[r].pc = "failed"
       /\ req[r].order.payment_method = "stripe"
       /\ req[r].error = "payment failed"
       /\ req[r].cart_items # <<>>

(* C20: a checkout whose payment the gateway accepted ends only by
   persisting its Order with payment_status paid: the next step of a request
   that holds a paid order appends that order to the stored orders. *)
C20_NoChargeWithoutOrder ==
    [][\A r \in Slots :
          (/\ req[r].pc = "items"
           /\ req[r].order.payment_status = "paid"
           /\ req'[r] # req[r])
          => /\ Len(orders') = Len(orders) + 1
             /\ orders'[Len(orders')].user_id = req[r].user_id
             /\ orders'[Len(orders')].payment_status = "paid"]_vars

(* C21: an Order is persisted with payment_status paid only by a request
   whose gateway call reported the payment itself as completed, whichever
   adapter made the call. *)
C21_PaidOnlyWhenCaptured ==
    [][\A r \in Slots :
          (/\ req[r].pc = "items"
           /\ req'[r].pc = "idle"
           /\ Len(orders') = Len(orders) + 1
           /\ orders'[Len(orders')].payment_status = "paid")
          => /\ req[r].payment_result # <<>>
             /\ req[r].payment_result[1].status = "completed"]_vars

(* C22: every persisted order with payment_status paid has a payment_id. *)
C22_PaidOrderHasPaymentId ==
    \A o \in 1..Len(orders) :
       orders[o].payment_status = "paid" => orders[o].payment_id # "None"

(* C23: the stock restored for the orders never exceeds the stock their
   placement removed: where only checkouts and cancellations write the
   stock, no product's stock_quantity rises above the quantity it started
   with. *)
C23_RestoredAtMostOnce ==
    \A p \in Products : StockOf(p) <= InitialStock[p]

(* C24: after a lock has expired, a single further failed attempt does not
   lock the account again.  An account whose failure count is still the five
   that set its lock, and whose locked_until has passed, has had no failure
   since the lock; the failure that takes its count to six leaves it
   unlocked. *)
C24_NoRelockAfterExpiry ==
    [][\A u \in Users :
          (/\ users[u].failed_login_attempts = MaxFailedLogins
           /\ users[u].locked_until # <<>>
           /\ users[u].locked_until[1] <= now
           /\ users'[u].failed_login_attempts = MaxFailedLogins + 1)
          => ~ /\ users'[u].locked_until # <<>>
               /\ users'[u].locked_until[1] > now']_vars

(* C25: a login with the right password on an account whose locked_until
   is not in the future (never set, or passed) succeeds: it sets
   failed_login_attempts to 0, locked_until to null and last_login to the
   time of the request, and is recorded; and every successful login leaves
   the failure count at 0, so the failures before it count for nothing. *)
C25_LoginAfterLockResets ==
    [][\A u \in Users :
          LET entered == /\ Len(audit_log') = Len(audit_log) + 1
                         /\ audit_log'[Len(audit_log')].action = "login"
                         /\ audit_log'[Len(audit_log')].user_id = u
          IN  /\ (/\ Login(u, TRUE)
                  /\ ~ (users[u].locked_until # <<>> /\ users[u].locked_until[1] > now))
                 => /\ users'[u] = [failed_login_attempts |-> 0,
                                    locked_until |-> <<>>,
                                    last_login |-> <<now>>]
                    /\ entered
              /\ entered => /\ users'[u].failed_login_attempts = 0
                            /\ users'[u].locked_until = <<>>]_vars

C25_Witness ==
    \E u \in Users :
       /\ users[u] = [failed_login_attempts |-> 0, locked_until |-> <<>>,
                      last_login |-> <<now>>]
       /\ now >= LockMinutes
       /\ login_attempts = MaxFailedLogins + 1
       /\ Len(audit_log) = 1
       /\ audit_log[1].user_id = u
       /\ \A u2 \in Users \ {u} : users[u2].last_login = <<>>

(* C26: while an account's locked_until is in the future, a login attempt
   for it with the right or with a wrong password leaves every account's
   failed_login_attempts, locked_until and last_login as they were and
   records no login. *)
C26_LockedAttemptChangesNothing ==
    [][\A u \in Users, password_ok \in BOOLEAN :
          (/\ users[u].locked_until # <<>>
           /\ users[u].locked_until[1] > now
           /\ Login(u, password_ok))
          => /\ users'[u].failed_login_attempts = users[u].failed_login_attempts
             /\ users'[u].locked_until = users[u].locked_until
             /\ users'[u].last_login = users[u].last_login
             /\ users' = users
             /\ audit_log' = audit_log]_vars

C26_Witness ==
    \E u \in Users :
       /\ users[u] = [failed_login_attempts |-> MaxFailedLogins,
                      locked_until |-> <<LockMinutes>>, last_login |-> <<>>]
       /\ 0 < now /\ now < LockMinutes
       /\ login_attempts = MaxLogins
       /\ \A u2 \in Users \ {u} : users[u2].failed_login_attempts = 0

(* C27: every cart line's quantity is at most 10. *)
C27_AtMostTenPerLine ==
    \A c \in cart_items : c.quantity <= MaxPerLine

C29_AtLeastOnePerLine ==
    [][/\ \A c \in cart_items' : c.quantity >= 1
       /\ \A u \in Users, p \in Products, sz \in Sizes, col \in Colors :
            AddToCart(u, p, 0, sz, col)
            => \A c \in cart_items' \ cart_items :
                  /\ c.user_id = u /\ c.product_id = p
                  /\ \/ c.quantity = 1 /\ c.id \notin {d.id : d \in cart_items}
                     \/ \E d \in cart_items :
                          d.id = c.id /\ c.quantity = d.quantity + 1
       /\ \A u \in Users, id \in 1..MaxCartLines, q \in {-1, 0} :
            UpdateCart(u, id, q)
            => /\ \A c \in cart_items' : c.id # id
               /\ cart_items' \subseteq cart_items]_vars

C29_Witness ==
    /\ orders = <<>>
    /\ \A r \in Slots : req[r].pc = "idle"
    /\ next_cart_id = MaxCartLines + 1
    /\ \E c \in cart_items : cart_items = {c} /\ c.quantity = 1

(* C30: a cancel_order or reorder request that names another user's order,
   and an update_cart or remove_from_cart request that names another user's
   cart line, changes no order, no stock_quantity and no cart line; and the
   four handlers, whatever they are asked, leave the other users' orders and
   cart lines as they were. *)
C30_OnlyOwnRows ==
    [][/\ \A u \in Users, o \in 1..Len(orders) :
            (CancelOrder(u, o) \/ Reorder(u, o))
            => /\ orders[o].user_id # u
                    => (orders' = orders /\ products' = products
                          /\ cart_items' = cart_items)
               /\ \A o2 \in 1..Len(orders) :
                     orders[o2].user_id # u => orders'[o2] = orders[o2]
               /\ \A c \in cart_items : c.user_id # u => c \in cart_items'
               /\ \A c \in cart_items' \ cart_items : c.user_id = u
       /\ \A u \in Users, id \in 1..MaxCartLines, q \in UpdateQtyInputs :
            (UpdateCart(u, id, q) \/ RemoveFromCart(u, id))
            => /\ (\E c \in cart_items : c.id = id /\ c.user_id # u)
                    => cart_items' = cart_items
               /\ orders' = orders /\ products' = products
               /\ \A c \in cart_items : c.user_id # u => c \in cart_items'
               /\ \A c \in cart_items' \ cart_items : c.user_id = u]_vars

C30_Witness ==
    \E u1 \in Users, u2 \in Users :
       /\ u1 # u2
       /\ \E o \in 1..Len(orders) :
            orders[o].user_id = u1 /\ orders[o].status = "cancelled"
       /\ \E c \in cart_items : c.user_id = u2 /\ c.quantity = 2
       /\ \A c \in cart_items : c.user_id = u2

====
